---------------------------- MODULE Spec2Model ----------------------------
(***************************************************************************)
(* A model of the Telegram bot's persistence layer:                        *)
(*   - app/supabase_persistence.py: the conversation-key codec and the     *)
(*     SupabasePersistence store (five in-memory caches mirrored into five *)
(*     rows of one backend table);                                         *)
(*   - app/main.py: the adapter class of the same name that lifespan()     *)
(*     wires into the bot, the startup sequence and the /webhook endpoint; *)
(*   - app/handlers.py: the throttle middleware global_throttle.           *)
(*                                                                         *)
(* Python values are represented as follows.                               *)
(*   None            <<>>                                                  *)
(*   an int n        <<n>>           (where None is a possible value)      *)
(*   a str           a sequence of one-character strings, when the code    *)
(*                   builds or parses it; a TLA+ string when it is opaque  *)
(*   a dict          a function whose domain is the set of its keys        *)
(*   a tuple         a sequence                                            *)
(***************************************************************************)
EXTENDS Integers, Sequences, FiniteSets, TLC

VARIABLES
    \* --- the codec exercised on its own (SpecCodec)
    cpc,            \* "start" | "encoded" | "decoded"
    ckey,           \* the key given to _conv_key_encode
    cstr,           \* the string _conv_key_encode returned
    cout,           \* what _conv_key_decode returned (a key, or ValueError)
    \* --- the backend (the Supabase table)
    backend_up,     \* whether a request to the backend succeeds
    table,          \* row id -> NoRow or Row(data)
    \* --- the SupabasePersistence object of supabase_persistence.py
    phase,          \* "ready" | "crashed" (the constructor raised)
    flush_on_update,
    store_data,     \* which record kinds the bot asks to persist
    _user_data,
    _chat_data,
    _bot_data,
    _conversations,
    _callback_data,
    call,           \* the last completed call: <<operation, arguments, raised>>
    nops,           \* number of calls made so far
    outage,         \* history of the upserts of flush(): "none" (none failed
                    \* so far), "failed" (the last one failed and was logged),
                    \* "recovered" (one succeeded after a failed one)
    \* --- main.py: the application's startup and its own persistence class
    env,            \* which of TELEGRAM_BOT_TOKEN and PUBLIC_URL are set
    lpc,            \* where lifespan() stands
    invoked,        \* the methods lifespan() has called on the persistence
    mcall,          \* the last completed call on the persistence of main.py:
                    \* <<operation, arguments, raised, returned value>>
    \* --- main.py: the /webhook endpoint
    response,       \* the last request answered: <<number of requests so far,
                    \* its secret header, status code>>
    processed,      \* number of updates handed to process_update
    \* --- handlers.py: the throttle middleware
    clock,          \* what datetime.now(timezone.utc).timestamp() returns, in
                    \* ticks
    last_msg_ts,    \* user -> context.user_data["last_msg_ts"] of that user,
                    \* None when the key is absent
    tcall,          \* the last completed call of global_throttle:
                    \* <<number of calls so far, kind of update, user, raised>>
    last_accepted   \* user -> the clock at the last update of that user that
                    \* global_throttle let pass (history), None when none

codec_vars == <<cpc, ckey, cstr, cout>>
backend_vars == <<backend_up, table>>
config_vars == <<flush_on_update, store_data>>
caches == <<_user_data, _chat_data, _bot_data, _conversations, _callback_data>>
main_vars == <<env, lpc, invoked, mcall>>
web_vars == <<response, processed>>
throttle_vars == <<clock, last_msg_ts, tcall, last_accepted>>
store_vars == <<phase, flush_on_update, store_data, _user_data, _chat_data,
                _bot_data, _conversations, _callback_data, call, nops, outage>>

vars == <<cpc, ckey, cstr, cout, backend_up, table, phase, flush_on_update,
          store_data, _user_data, _chat_data, _bot_data, _conversations,
          _callback_data, call, nops, outage, env, lpc, invoked, mcall,
          response, processed, clock, last_msg_ts, tcall, last_accepted>>

-----------------------------------------------------------------------------
(* Bounds of the model.                                                    *)

\* chat ids given to the codec range over -MaxChatId..MaxChatId
MaxChatId == 12
\* thread ids given to the codec range over None and -1..MaxThreadId
MaxThreadId == 42
\* calls made on one store object and its successors after a restart
MaxOps == 3
\* requests made to the /webhook endpoint
MaxRequests == 2
\* the clock's resolution: ticks in one second
TicksPerSecond == 2
\* the clock runs from tick 1 to MaxClock
MaxClock == 5
\* calls of global_throttle
MaxThrottleCalls == 3

-----------------------------------------------------------------------------
(* Python values.                                                          *)

None == <<>>
Some(n) == <<n>>
\* the exception int() raises on a string that is no integer literal
ValueError == <<"ValueError">>

Digits == <<"0", "1", "2", "3", "4", "5", "6", "7", "8", "9">>
DigitSet == {Digits[i] : i \in 1..10}
DigitVal(c) == (CHOOSE i \in 1..10 : Digits[i] = c) - 1

\* str(n) for a natural number: its decimal digits, no leading zero
RECURSIVE NatToStr(_)
NatToStr(n) ==
    IF n < 10 THEN <<Digits[n + 1]>>
    ELSE NatToStr(n \div 10) \o <<Digits[(n % 10) + 1]>>

\* str(n) for an int, as an f-string formats it
IntToStr(n) == IF n < 0 THEN <<"-">> \o NatToStr(-n) ELSE NatToStr(n)

\* f"{v}" for a value that is an int or None
PyStr(v) == IF v = None THEN <<"N", "o", "n", "e">> ELSE IntToStr(v[1])

\* the value of a non-empty digit string
RECURSIVE DigitsToNat(_)
DigitsToNat(s) ==
    IF Len(s) = 1 THEN DigitVal(s[1])
    ELSE DigitsToNat(SubSeq(s, 1, Len(s) - 1)) * 10 + DigitVal(s[Len(s)])

AllDigits(s) == Len(s) > 0 /\ \A i \in 1..Len(s) : s[i] \in DigitSet

\* int(s) accepts an optional sign followed by decimal digits (over the
\* alphabet of the model: digits, "-", "+", ":" and letters)
IsIntLiteral(s) ==
    /\ Len(s) > 0
    /\ IF s[1] \in {"-", "+"} THEN AllDigits(Tail(s)) ELSE AllDigits(s)

\* int(s) for a string int() accepts
PyInt(s) ==
    IF s[1] = "-" THEN 0 - DigitsToNat(Tail(s))
    ELSE IF s[1] = "+" THEN DigitsToNat(Tail(s))
    ELSE DigitsToNat(s)

\* the position of the first ":" of s, 0 when there is none
FirstColon(s) ==
    IF \E i \in 1..Len(s) : s[i] = ":"
    THEN CHOOSE i \in 1..Len(s) : s[i] = ":" /\ \A j \in 1..(i - 1) : s[j] # ":"
    ELSE 0

-----------------------------------------------------------------------------
(* The conversation-key codec.                                             *)

\* a mutant: the thread id is dropped when it is falsy, so 0 encodes as None
_conv_key_encode_falsy(key) ==
    PyStr(key[1]) \o <<":">> \o
        (IF key[2] # None /\ key[2] # Some(0) THEN PyStr(key[2]) ELSE <<>>)

\* f"{chat_id}:{thread_id if thread_id is not None else ''}"
_conv_key_encode(key) ==
    PyStr(key[1]) \o <<":">> \o (IF key[2] # None THEN PyStr(key[2]) ELSE <<>>)

\* a mutant: the thread segment is parsed but not returned
_conv_key_decode_no_thread(s) ==
    IF FirstColon(s) = 0
    THEN IF IsIntLiteral(s) THEN <<Some(PyInt(s)), None>> ELSE ValueError
    ELSE LET chat_str == SubSeq(s, 1, FirstColon(s) - 1)
             thread_str == SubSeq(s, FirstColon(s) + 1, Len(s))
         IN  IF chat_str # <<>> /\ ~IsIntLiteral(chat_str) THEN ValueError
             ELSE IF thread_str # <<>> /\ ~IsIntLiteral(thread_str) THEN ValueError
             ELSE << IF chat_str # <<>> THEN Some(PyInt(chat_str)) ELSE None,
                     None >>

\* the inverse; ValueError when a segment is no integer literal
_conv_key_decode(s) ==
    IF FirstColon(s) = 0
    THEN IF IsIntLiteral(s) THEN <<Some(PyInt(s)), None>> ELSE ValueError
    ELSE LET chat_str == SubSeq(s, 1, FirstColon(s) - 1)
             thread_str == SubSeq(s, FirstColon(s) + 1, Len(s))
         IN  IF chat_str # <<>> /\ ~IsIntLiteral(chat_str) THEN ValueError
             ELSE IF thread_str # <<>> /\ ~IsIntLiteral(thread_str) THEN ValueError
             ELSE << IF chat_str # <<>> THEN Some(PyInt(chat_str)) ELSE None,
                     IF thread_str # <<>> THEN Some(PyInt(thread_str)) ELSE None >>

-----------------------------------------------------------------------------
(* The values the bot runtime hands to the store.                          *)

Users == {1, 2}
Chats == {100}
EmptyDict == [k \in {} |-> 0]
D1 == ("visits" :> 1)
D2 == ("name" :> 1) @@ ("visits" :> 2)
DataVals == {D1, D2}
ConvNames == {"survey"}
ConvKeys == {<<Some(100), None>>, <<Some(100), Some(0)>>, <<Some(100), Some(7)>>}
\* ASK_NAME, and one more state
ASK_NAME == 0
ConvStates == {Some(ASK_NAME), Some(1)}

\* d with key k bound to v (d[k] = v of a dict)
DictSet(d, k, v) == [x \in DOMAIN d \cup {k} |-> IF x = k THEN v ELSE d[x]]
\* d without key k (d.pop(k, None))
DictPop(d, k) == [x \in DOMAIN d \ {k} |-> d[x]]
\* d[k] of a defaultdict(dict), d.get(k, {}) of a dict
DictGet(d, k) == IF k \in DOMAIN d THEN d[k] ELSE EmptyDict

-----------------------------------------------------------------------------
(* The backend table: rows {id, data}, data a JSON value.                  *)
(* A JSON value is <<"null">>, <<"dict", d>> or <<"str", s>>.              *)

JNull == <<"null">>
JDict(d) == <<"dict", d>>
IsDict(j) == j[1] = "dict"
\* Python's truth value of a decoded JSON value
Truthy(j) == j # JNull /\ j # JDict(EmptyDict) /\ j # <<"str", "">>

NoRow == <<>>
Row(data) == <<data>>

prefix == "main"
\* a mutant: the row ids are built without the prefix
RowId_without_prefix(kind) == kind

RowId(kind) == prefix \o ":" \o kind
StateKinds == {"user_data", "chat_data", "bot_data", "conversations", "callback_data"}
StateRowIds == {RowId(k) : k \in StateKinds}
probe_id == RowId("__healthcheck__")
\* the concatenation of a sequence of characters, as an opaque string
RECURSIVE StrOf(_)
StrOf(cs) == IF cs = <<>> THEN "" ELSE cs[1] \o StrOf(Tail(cs))

\* the row ids of the persistence class of main.py
MainUserRowId(user_id) == "user_" \o StrOf(IntToStr(user_id))
MainChatRowId(chat_id) == "chat_" \o StrOf(IntToStr(chat_id))
MainRowIds ==
    {"user_data", "chat_data", "bot_data"}
        \cup {MainUserRowId(u) : u \in Users} \cup {MainChatRowId(c) : c \in Chats}

\* a row of a store constructed with another prefix on the same table
OtherStoreRowIds == {"other:user_data"}

TableIds == StateRowIds \cup {probe_id} \cup MainRowIds \cup OtherStoreRowIds

\* what json serialisation makes of a dict with int keys: the keys become
\* their decimal strings
JsonIntKeys(d) ==
    [s \in {IntToStr(k) : k \in DOMAIN d} |->
        d[CHOOSE k \in DOMAIN d : IntToStr(k) = s]]

\* whether {int(k): v for k, v in ud.items()} raises ValueError: some key is
\* no integer literal
IntKeysRaises(d) == \E s \in DOMAIN d : ~IsIntLiteral(s)

\* {int(k): v for k, v in ud.items()}, when no int(k) raises
IntKeys(d) ==
    [k \in {PyInt(s) : s \in DOMAIN d} |->
        d[CHOOSE s \in DOMAIN d : PyInt(s) = k]]

\* a mutant: every key of a flow is encoded without its thread id
_conversations_encode_chat_only(conv) ==
    [name \in DOMAIN conv |->
        [s \in {PyStr(k[1]) \o <<":">> : k \in DOMAIN conv[name]} |->
            conv[name][CHOOSE k \in DOMAIN conv[name] : PyStr(k[1]) \o <<":">> = s]]]

\* the (chat_id, thread_id) keys of every flow become strings
_conversations_encode(conv) ==
    [name \in DOMAIN conv |->
        [s \in {_conv_key_encode(k) : k \in DOMAIN conv[name]} |->
            conv[name][CHOOSE k \in DOMAIN conv[name] : _conv_key_encode(k) = s]]]

\* whether _conversations_decode raises: _conv_key_decode raises on a key
_conversations_decode_raises(data) ==
    \E name \in DOMAIN data : \E s \in DOMAIN data[name] :
        _conv_key_decode(s) = ValueError

\* the inverse of _conversations_encode, when no key raises
_conversations_decode(data) ==
    [name \in DOMAIN data |->
        [k \in {_conv_key_decode(s) : s \in DOMAIN data[name]} |->
            data[name][CHOOSE s \in DOMAIN data[name] : _conv_key_decode(s) = k]]]

-----------------------------------------------------------------------------
(* SupabasePersistence (supabase_persistence.py): flush and load.          *)

\* the five rows flush() sends in one upsert
FlushRows(ud, cd, bd, cv, cb) ==
    (RowId("user_data") :> JDict(JsonIntKeys(ud))) @@
    (RowId("chat_data") :> JDict(JsonIntKeys(cd))) @@
    (RowId("bot_data") :> JDict(bd)) @@
    (RowId("conversations") :> JDict(_conversations_encode(cv))) @@
    (RowId("callback_data") :> JDict(cb))

\* the table after a successful upsert of rows
Upsert(tbl, rows) ==
    [id \in DOMAIN tbl |-> IF id \in DOMAIN rows THEN Row(rows[id]) ELSE tbl[id]]

\* a mutant: the upsert's exception is not caught
flush_raises(ud, cd, bd, cv, cb) ==
    IF backend_up
    THEN [table |-> Upsert(table, FlushRows(ud, cd, bd, cv, cb)),
          raised |-> FALSE, wrote |-> TRUE]
    ELSE [table |-> table, raised |-> TRUE, wrote |-> FALSE]

\* a mutant: only the user_data row is written
flush_user_row_only(ud, cd, bd, cv, cb) ==
    IF backend_up
    THEN [table |-> Upsert(table, RowId("user_data") :> JDict(JsonIntKeys(ud))),
          raised |-> FALSE, wrote |-> TRUE]
    ELSE [table |-> table, raised |-> FALSE, wrote |-> FALSE]

\* flush() on caches ud, cd, bd, cv, cb: the table afterwards, whether the
\* call raised and whether the upsert went through.  An exception of the
\* upsert is logged and swallowed.
flush(ud, cd, bd, cv, cb) ==
    IF backend_up
    THEN [table |-> Upsert(table, FlushRows(ud, cd, bd, cv, cb)),
          raised |-> FALSE, wrote |-> TRUE]
    ELSE [table |-> table, raised |-> FALSE, wrote |-> FALSE]

\* row.get("data") of the row with this id, None when the select returned none
RowData(tbl, id) == IF tbl[id] = NoRow THEN JNull ELSE tbl[id][1]
\* data_map.get(id) or {}
OrEmpty(j) == IF Truthy(j) THEN j ELSE JDict(EmptyDict)

\* the caches as __init__ creates them
EmptyCaches ==
    [raised |-> FALSE, user_data |-> EmptyDict, chat_data |-> EmptyDict,
     bot_data |-> EmptyDict, conversations |-> EmptyDict,
     callback_data |-> EmptyDict]

\* _load_all() against table tbl, reachable or not: the caches it leaves and
\* whether it raised.  A failed select is logged and the caches stay empty;
\* int() and _conv_key_decode run outside the try, so their ValueError
\* propagates.
_load_all(tbl, up) ==
    IF ~up THEN EmptyCaches
    ELSE
    LET ud == OrEmpty(RowData(tbl, RowId("user_data")))
        cd == OrEmpty(RowData(tbl, RowId("chat_data")))
        bd == OrEmpty(RowData(tbl, RowId("bot_data")))
        conv == OrEmpty(RowData(tbl, RowId("conversations")))
        cb == OrEmpty(RowData(tbl, RowId("callback_data")))
    IN  IF IsDict(ud) /\ IntKeysRaises(ud[2])
            THEN [EmptyCaches EXCEPT !.raised = TRUE]
        ELSE IF IsDict(cd) /\ IntKeysRaises(cd[2])
            THEN [EmptyCaches EXCEPT !.raised = TRUE]
        ELSE IF IsDict(conv) /\ _conversations_decode_raises(conv[2])
            THEN [EmptyCaches EXCEPT !.raised = TRUE]
        ELSE [raised |-> FALSE,
              user_data |-> IF IsDict(ud) THEN IntKeys(ud[2]) ELSE EmptyDict,
              chat_data |-> IF IsDict(cd) THEN IntKeys(cd[2]) ELSE EmptyDict,
              bot_data |-> IF IsDict(bd) THEN bd[2] ELSE EmptyDict,
              conversations |-> IF IsDict(conv)
                                THEN _conversations_decode(conv[2]) ELSE EmptyDict,
              callback_data |-> IF IsDict(cb) THEN cb[2] ELSE EmptyDict]

-----------------------------------------------------------------------------
(* SupabasePersistence (supabase_persistence.py): the operations.          *)

AllKinds == [user_data |-> TRUE, chat_data |-> TRUE, bot_data |-> TRUE,
             conversations |-> TRUE, callback_data |-> TRUE]
NoKinds == [user_data |-> FALSE, chat_data |-> FALSE, bot_data |-> FALSE,
            conversations |-> FALSE, callback_data |-> FALSE]
StoreDataChoices == {AllKinds, NoKinds}

get_user_data == _user_data
get_chat_data == _chat_data
get_bot_data == _bot_data
get_callback_data == _callback_data
get_conversations(name) == DictGet(_conversations, name)

\* a call can be made: the object exists (and the model's budget allows it)
Called == phase = "ready" /\ nops < MaxOps

\* the end of every mutating method: the caches as the method left them,
\* then `if self.flush_on_update: self.flush()` (do_flush), then return
Finish(op, args, ud, cd, bd, cv, cb, do_flush) ==
    LET f == IF do_flush THEN flush(ud, cd, bd, cv, cb)
             ELSE [table |-> table, raised |-> FALSE, wrote |-> FALSE]
    IN  /\ _user_data' = ud
        /\ _chat_data' = cd
        /\ _bot_data' = bd
        /\ _conversations' = cv
        /\ _callback_data' = cb
        /\ table' = f.table
        /\ call' = <<op, args, f.raised>>
        /\ nops' = nops + 1
        /\ outage' = IF ~do_flush THEN outage
                     ELSE IF ~f.wrote THEN "failed"
                     ELSE IF outage = "failed" THEN "recovered"
                     ELSE outage
        /\ UNCHANGED <<codec_vars, backend_up, phase, config_vars, main_vars,
                       web_vars, throttle_vars>>

\* the early return of an update_* whose record kind is not stored
ReturnEarly(op, args) ==
    /\ call' = <<op, args, FALSE>>
    /\ nops' = nops + 1
    /\ UNCHANGED <<codec_vars, backend_vars, phase, config_vars, caches,
                   outage, main_vars, web_vars, throttle_vars>>

\* a mutant: the new mapping is merged into the old one
update_user_data_merge(user_id, data) ==
    /\ Called
    /\ IF ~store_data.user_data
       THEN ReturnEarly("update_user_data", <<user_id, data>>)
       ELSE Finish("update_user_data", <<user_id, data>>,
                   DictSet(_user_data, user_id, data @@ DictGet(_user_data, user_id)),
                   _chat_data, _bot_data, _conversations, _callback_data,
                   flush_on_update)

\* a mutant: the user map is rebuilt with the one new record
update_user_data_replace(user_id, data) ==
    /\ Called
    /\ IF ~store_data.user_data
       THEN ReturnEarly("update_user_data", <<user_id, data>>)
       ELSE Finish("update_user_data", <<user_id, data>>,
                   DictSet(EmptyDict, user_id, data),
                   _chat_data, _bot_data, _conversations, _callback_data,
                   flush_on_update)

update_user_data(user_id, data) ==
    /\ Called
    /\ IF ~store_data.user_data
       THEN ReturnEarly("update_user_data", <<user_id, data>>)
       ELSE Finish("update_user_data", <<user_id, data>>,
                   DictSet(_user_data, user_id, data),
                   _chat_data, _bot_data, _conversations, _callback_data,
                   flush_on_update)

update_chat_data(chat_id, data) ==
    /\ Called
    /\ IF ~store_data.chat_data
       THEN ReturnEarly("update_chat_data", <<chat_id, data>>)
       ELSE Finish("update_chat_data", <<chat_id, data>>,
                   _user_data, DictSet(_chat_data, chat_id, data),
                   _bot_data, _conversations, _callback_data, flush_on_update)

\* a mutant: the record is assigned and flushed whatever store_data says
update_bot_data_unchecked(data) ==
    /\ Called
    /\ Finish("update_bot_data", <<data>>,
              _user_data, _chat_data, data, _conversations, _callback_data,
              flush_on_update)

update_bot_data(data) ==
    /\ Called
    /\ IF ~store_data.bot_data
       THEN ReturnEarly("update_bot_data", <<data>>)
       ELSE Finish("update_bot_data", <<data>>,
                   _user_data, _chat_data, data, _conversations, _callback_data,
                   flush_on_update)

\* self._bot_data = bot_data or {}
refresh_bot_data(bot_data) ==
    /\ Called
    /\ Finish("refresh_bot_data", <<bot_data>>,
              _user_data, _chat_data,
              IF bot_data # EmptyDict THEN bot_data ELSE EmptyDict,
              _conversations, _callback_data, flush_on_update)

update_callback_data(data) ==
    /\ Called
    /\ IF ~store_data.callback_data
       THEN ReturnEarly("update_callback_data", <<data>>)
       ELSE Finish("update_callback_data", <<data>>,
                   _user_data, _chat_data, _bot_data, _conversations, data,
                   flush_on_update)

\* a mutant: a None state is stored like any other
update_conversation_keeps_none(name, key, new_state) ==
    /\ Called
    /\ IF ~store_data.conversations
       THEN ReturnEarly("update_conversation", <<name, key, new_state>>)
       ELSE Finish("update_conversation", <<name, key, new_state>>,
                   _user_data, _chat_data, _bot_data,
                   DictSet(_conversations, name,
                           DictSet(DictGet(_conversations, name), key, new_state)),
                   _callback_data, flush_on_update)

\* conv = self._conversations.setdefault(name, {}); a None state removes the
\* key, any other state is stored under it
update_conversation(name, key, new_state) ==
    /\ Called
    /\ IF ~store_data.conversations
       THEN ReturnEarly("update_conversation", <<name, key, new_state>>)
       ELSE LET conv == DictGet(_conversations, name)
            IN  Finish("update_conversation", <<name, key, new_state>>,
                       _user_data, _chat_data, _bot_data,
                       DictSet(_conversations, name,
                               IF new_state = None THEN DictPop(conv, key)
                               ELSE DictSet(conv, key, new_state)),
                       _callback_data, flush_on_update)

\* a mutant: the whole user map is cleared
drop_user_data_clear(user_id) ==
    /\ Called
    /\ Finish("drop_user_data", <<user_id>>,
              EmptyDict, _chat_data, _bot_data, _conversations,
              _callback_data, flush_on_update)

drop_user_data(user_id) ==
    /\ Called
    /\ Finish("drop_user_data", <<user_id>>,
              DictPop(_user_data, user_id), _chat_data, _bot_data, _conversations,
              _callback_data, flush_on_update)

drop_chat_data(chat_id) ==
    /\ Called
    /\ Finish("drop_chat_data", <<chat_id>>,
              _user_data, DictPop(_chat_data, chat_id), _bot_data, _conversations,
              _callback_data, flush_on_update)

\* a mutant: the record is refreshed from the backend row when it can be read
refresh_user_data_from_backend(user_id, user_data) ==
    /\ Called
    /\ LET stored == OrEmpty(RowData(table, RowId("user_data")))[2]
           key == IntToStr(user_id)
       IN  Finish("refresh_user_data", <<user_id, user_data>>,
                  DictSet(_user_data, user_id,
                          IF backend_up /\ key \in DOMAIN stored
                          THEN stored[key] ELSE user_data),
                  _chat_data, _bot_data, _conversations, _callback_data,
                  flush_on_update)

refresh_user_data(user_id, user_data) ==
    /\ Called
    /\ Finish("refresh_user_data", <<user_id, user_data>>,
              DictSet(_user_data, user_id, user_data), _chat_data, _bot_data,
              _conversations, _callback_data, flush_on_update)

\* a mutant: the method ends without the flush
refresh_chat_data_no_flush(chat_id, chat_data) ==
    /\ Called
    /\ Finish("refresh_chat_data", <<chat_id, chat_data>>,
              _user_data, DictSet(_chat_data, chat_id, chat_data), _bot_data,
              _conversations, _callback_data, FALSE)

refresh_chat_data(chat_id, chat_data) ==
    /\ Called
    /\ Finish("refresh_chat_data", <<chat_id, chat_data>>,
              _user_data, DictSet(_chat_data, chat_id, chat_data), _bot_data,
              _conversations, _callback_data, flush_on_update)

\* an explicit flush()
Flush ==
    /\ Called
    /\ Finish("flush", <<>>, _user_data, _chat_data, _bot_data, _conversations,
              _callback_data, TRUE)

\* where health_check() can fail: nowhere, at the first select, at the upsert
\* of the probe row, at the select that reads it back, or by that select
\* returning no data
HealthFailures == {"none", "select", "upsert", "readback", "nodata"}

\* the probe row's data, {"ok": True}
ProbeData == JDict("ok" :> TRUE)

\* .delete().eq("id", id)
Delete(tbl, id) == [tbl EXCEPT ![id] = NoRow]

\* a mutant: an empty read-back is accepted
health_check_accepts_no_data(fail, delete_ok) ==
    /\ Called
    /\ backend_up \/ fail = "select"
    /\ fail = "select" => delete_ok
    /\ LET upserted == IF fail \in {"select", "upsert"} THEN table
                       ELSE Upsert(table, probe_id :> ProbeData)
       IN  /\ table' = IF fail # "select" /\ delete_ok
                       THEN Delete(upserted, probe_id) ELSE upserted
           /\ call' = <<"health_check", <<fail, delete_ok>>,
                        fail \notin {"none", "nodata"}>>
    /\ nops' = nops + 1
    /\ UNCHANGED <<codec_vars, backend_up, phase, config_vars, caches, outage,
                   main_vars, web_vars, throttle_vars>>

\* a mutant: the probe row is deleted after a successful check only, not in a
\* finally clause
health_check_no_finally(fail, delete_ok) ==
    /\ Called
    /\ backend_up \/ fail = "select"
    /\ fail = "select" => delete_ok
    /\ LET upserted == IF fail \in {"select", "upsert"} THEN table
                       ELSE Upsert(table, probe_id :> ProbeData)
       IN  /\ table' = IF fail = "none" /\ delete_ok
                       THEN Delete(upserted, probe_id) ELSE upserted
           /\ call' = <<"health_check", <<fail, delete_ok>>, fail # "none">>
    /\ nops' = nops + 1
    /\ UNCHANGED <<codec_vars, backend_up, phase, config_vars, caches, outage,
                   main_vars, web_vars, throttle_vars>>

\* health_check(): a select, then the probe row is upserted and read back,
\* and in the finally clause deleted. fail is the request that fails (the
\* first select when the backend is unreachable), delete_ok whether the
\* delete is accepted; a failed delete is only logged. When the first select
\* fails the delete is not reached.
health_check(fail, delete_ok) ==
    /\ Called
    /\ backend_up \/ fail = "select"
    /\ fail = "select" => delete_ok
    /\ LET upserted == IF fail \in {"select", "upsert"} THEN table
                       ELSE Upsert(table, probe_id :> ProbeData)
       IN  /\ table' = IF fail # "select" /\ delete_ok
                       THEN Delete(upserted, probe_id) ELSE upserted
           /\ call' = <<"health_check", <<fail, delete_ok>>, fail # "none">>
    /\ nops' = nops + 1
    /\ UNCHANGED <<codec_vars, backend_up, phase, config_vars, caches, outage,
                   main_vars, web_vars, throttle_vars>>

\* the process restarts and constructs the store again, with the same table
\* and prefix: the caches are created empty and _load_all() fills them
__init__ ==
    /\ nops < MaxOps
    /\ LET r == _load_all(table, backend_up)
       IN  /\ phase' = IF r.raised THEN "crashed" ELSE "ready"
           /\ _user_data' = r.user_data
           /\ _chat_data' = r.chat_data
           /\ _bot_data' = r.bot_data
           /\ _conversations' = r.conversations
           /\ _callback_data' = r.callback_data
           /\ call' = <<"__init__", <<backend_up>>, r.raised>>
    /\ nops' = nops + 1
    /\ UNCHANGED <<codec_vars, backend_vars, config_vars, outage, main_vars,
                   web_vars, throttle_vars>>

\* the backend becomes unreachable, or reachable again
BackendFails ==
    /\ backend_up
    /\ backend_up' = FALSE
    /\ UNCHANGED <<codec_vars, table, store_vars, main_vars, web_vars,
                   throttle_vars>>

BackendRecovers ==
    /\ ~backend_up
    /\ backend_up' = TRUE
    /\ UNCHANGED <<codec_vars, table, store_vars, main_vars, web_vars,
                   throttle_vars>>

\* the codec's variables, unused by the store's specification
CodecIdle == cpc = "idle" /\ ckey = None /\ cstr = <<>> /\ cout = None

\* the store as its constructor leaves it against table tbl, reachable (up)
\* or not, with the given constructor arguments
Constructed(tbl, up, fou, sd) ==
    LET r == _load_all(tbl, up)
    IN  /\ backend_up = up
        /\ table = tbl
        /\ phase = (IF r.raised THEN "crashed" ELSE "ready")
        /\ flush_on_update = fou
        /\ store_data = sd
        /\ _user_data = r.user_data
        /\ _chat_data = r.chat_data
        /\ _bot_data = r.bot_data
        /\ _conversations = r.conversations
        /\ _callback_data = r.callback_data
        /\ call = <<"__init__", <<up>>, r.raised>>
        /\ nops = 0
        /\ outage = "none"

EmptyTable == [id \in TableIds |-> NoRow]

\* the table with no row of this store yet, shared with a store of another
\* prefix and with a writer of unprefixed ids
OtherStoreRow == Row(JDict(<<"9">> :> D2))
UnprefixedRow == Row(JDict(D1))
SharedTable ==
    [id \in TableIds |->
        IF id \in OtherStoreRowIds THEN OtherStoreRow
        ELSE IF id = "bot_data" THEN UnprefixedRow
        ELSE NoRow]

\* the store, unused by the codec's specification
StoreIdle == Constructed(EmptyTable, TRUE, TRUE, AllKinds)

\* no request to /webhook has been answered
NoResponse == <<0, None, 0>>

\* the application of main.py, unused by the store's specification
MainIdle ==
    /\ env = [token |-> TRUE, public_url |-> TRUE]
    /\ lpc = "idle"
    /\ invoked = <<>>
    /\ mcall = <<"none", <<>>, FALSE, None>>
    /\ response = NoResponse
    /\ processed = 0

\* the throttle middleware, used by its own specification only
ThrottleIdle ==
    /\ clock = 1
    /\ last_msg_ts = [u \in Users |-> None]
    /\ tcall = <<0, "none", 0, FALSE>>
    /\ last_accepted = [u \in Users |-> None]

\* a first deployment: the table holds no row of this store yet
Init ==
    /\ CodecIdle
    /\ MainIdle
    /\ ThrottleIdle
    /\ \E up \in BOOLEAN, fou \in BOOLEAN, sd \in StoreDataChoices :
           Constructed(SharedTable, up, fou, sd)

Next ==
    \/ \E u \in Users, d \in DataVals : update_user_data(u, d)
    \/ \E c \in Chats, d \in DataVals : update_chat_data(c, d)
    \/ \E d \in DataVals : update_bot_data(d)
    \/ \E d \in DataVals \cup {EmptyDict} : refresh_bot_data(d)
    \/ \E d \in DataVals : update_callback_data(d)
    \/ \E n \in ConvNames, k \in ConvKeys, st \in ConvStates \cup {None} :
           update_conversation(n, k, st)
    \/ \E u \in Users : drop_user_data(u)
    \/ \E c \in Chats : drop_chat_data(c)
    \/ \E u \in Users, d \in DataVals : refresh_user_data(u, d)
    \/ \E c \in Chats, d \in DataVals : refresh_chat_data(c, d)
    \/ Flush
    \/ \E fail \in HealthFailures, delete_ok \in BOOLEAN :
           health_check(fail, delete_ok)
    \/ __init__
    \/ BackendFails
    \/ BackendRecovers

Spec == Init /\ [][Next]_vars

-----------------------------------------------------------------------------
(* A deployment against a table that already holds rows, some of them not  *)
(* written by flush().                                                     *)

\* a stored value that is no mapping
Junk == <<"str", "junk">>

StoredUserRows ==
    {NoRow, Row(Junk),
     Row(JDict(<<"1">> :> D1)),
     Row(JDict((<<"1">> :> D1) @@ (<<"a", "b", "c">> :> D2)))}

StoredChatRows ==
    {NoRow,
     Row(JDict(<<"1", "0", "0">> :> D2)),
     Row(JDict(<<"1", "0", "0", "x">> :> D2))}

StoredBotRows == {NoRow, Row(Junk), Row(JDict(D1))}

StoredConvRows ==
    {NoRow, Row(Junk),
     Row(JDict("survey" :> ((<<"1", "0", "0", ":">> :> Some(ASK_NAME)) @@
                            (<<"1", "0", "0", ":", "7">> :> Some(1))))),
     Row(JDict("survey" :> ((<<"1", "0", "0", ":">> :> Some(ASK_NAME)) @@
                            (<<"1", "0", "0", ":", "x">> :> Some(1)))))}

StoredCallbackRows == {NoRow, Row(JDict(D2))}

StoredTable(u, c, b, cv, cb) ==
    (RowId("user_data") :> u) @@ (RowId("chat_data") :> c) @@
    (RowId("bot_data") :> b) @@ (RowId("conversations") :> cv) @@
    (RowId("callback_data") :> cb) @@ EmptyTable

InitStored ==
    /\ CodecIdle
    /\ MainIdle
    /\ ThrottleIdle
    /\ \E u \in StoredUserRows, c \in StoredChatRows, b \in StoredBotRows,
          cv \in StoredConvRows, cb \in StoredCallbackRows, up \in BOOLEAN :
           Constructed(StoredTable(u, c, b, cv, cb), up, TRUE, AllKinds)

NextStored ==
    \/ Flush
    \/ __init__
    \/ BackendFails
    \/ BackendRecovers

SpecStored == InitStored /\ [][NextStored]_vars

-----------------------------------------------------------------------------
(* handlers.py: the throttle middleware.                                    *)

THROTTLE_SECONDS == 1

\* what global_throttle tells apart in an update: a callback query, an update
\* without effective_message, a message with a BOT_COMMAND entity, a message
\* whose text or caption starts with "/", any other message
UpdateKinds == {"callback_query", "no_message", "command_entity",
                "command_text", "command_caption", "message"}

\* float(store.get("last_msg_ts", 0.0)), in ticks
LastOf(v) == IF v = None THEN 0 ELSE v[1]

\* a mutant: a message exactly THROTTLE_SECONDS after the last one is stopped
global_throttle_inclusive(kind, user) ==
    /\ tcall[1] < MaxThrottleCalls
    /\ LET now == clock
           last == LastOf(last_msg_ts[user])
           stop == /\ kind = "message"
                   /\ last # 0
                   /\ (now - last) <= THROTTLE_SECONDS * TicksPerSecond
       IN  /\ tcall' = <<tcall[1] + 1, kind, user, stop>>
           /\ last_msg_ts' = IF kind = "message" /\ ~stop
                             THEN [last_msg_ts EXCEPT ![user] = Some(now)]
                             ELSE last_msg_ts
           /\ last_accepted' = IF stop THEN last_accepted
                               ELSE [last_accepted EXCEPT ![user] = Some(now)]
    /\ UNCHANGED <<clock, codec_vars, backend_vars, store_vars, main_vars,
                   web_vars>>

\* global_throttle(update, context) for an update of this kind from this
\* user: callback queries, non-message updates and commands return at once;
\* an ordinary message raises ApplicationHandlerStop when last_msg_ts is
\* truthy and less than THROTTLE_SECONDS old, and otherwise stores now
global_throttle(kind, user) ==
    /\ tcall[1] < MaxThrottleCalls
    /\ LET now == clock
           last == LastOf(last_msg_ts[user])
           stop == /\ kind = "message"
                   /\ last # 0
                   /\ (now - last) < THROTTLE_SECONDS * TicksPerSecond
       IN  /\ tcall' = <<tcall[1] + 1, kind, user, stop>>
           /\ last_msg_ts' = IF kind = "message" /\ ~stop
                             THEN [last_msg_ts EXCEPT ![user] = Some(now)]
                             ELSE last_msg_ts
           /\ last_accepted' = IF stop THEN last_accepted
                               ELSE [last_accepted EXCEPT ![user] = Some(now)]
    /\ UNCHANGED <<clock, codec_vars, backend_vars, store_vars, main_vars,
                   web_vars>>

\* time passes
ClockTicks ==
    /\ clock < MaxClock
    /\ clock' = clock + 1
    /\ UNCHANGED <<last_msg_ts, tcall, last_accepted, codec_vars, backend_vars,
                   store_vars, main_vars, web_vars>>

\* no update has reached the middleware yet
InitThrottle ==
    /\ CodecIdle
    /\ StoreIdle
    /\ MainIdle
    /\ ThrottleIdle

NextThrottle ==
    \/ \E kind \in UpdateKinds, u \in Users : global_throttle(kind, u)
    \/ ClockTicks

SpecThrottle == InitThrottle /\ [][NextThrottle]_vars

-----------------------------------------------------------------------------
(* main.py: the SupabasePersistence class defined there, and lifespan().   *)

\* _load(key): the data of the row with this id, {} when there is none; the
\* select's exception propagates
main_load(key) ==
    IF ~backend_up THEN [raised |-> TRUE, ret |-> None]
    ELSE IF table[key] # NoRow THEN [raised |-> FALSE, ret |-> table[key][1][2]]
    ELSE [raised |-> FALSE, ret |-> EmptyDict]

\* _save(key, data): one upsert of {id: key, data: data}; its exception
\* propagates
main_save(key, data) ==
    IF ~backend_up THEN [raised |-> TRUE, table |-> table]
    ELSE [raised |-> FALSE, table |-> Upsert(table, key :> JDict(data))]

\* the runtime calls the persistence while the application serves
Serving == lpc = "serving"

MainGet(op, key) ==
    /\ Serving
    /\ mcall' = <<op, <<>>, main_load(key).raised, main_load(key).ret>>
    /\ UNCHANGED <<codec_vars, backend_vars, store_vars, web_vars,
                   throttle_vars, env, lpc, invoked>>

MainUpdate(op, args, key, data) ==
    /\ Serving
    /\ table' = main_save(key, data).table
    /\ mcall' = <<op, args, main_save(key, data).raised, None>>
    /\ UNCHANGED <<codec_vars, backend_up, store_vars, web_vars, throttle_vars,
                   env, lpc, invoked>>

main_get_user_data == MainGet("get_user_data", "user_data")

main_update_user_data(user_id, data) ==
    MainUpdate("update_user_data", <<user_id, data>>, MainUserRowId(user_id), data)

main_get_chat_data == MainGet("get_chat_data", "chat_data")

main_update_chat_data(chat_id, data) ==
    MainUpdate("update_chat_data", <<chat_id, data>>, MainChatRowId(chat_id), data)

main_get_bot_data == MainGet("get_bot_data", "bot_data")

main_update_bot_data(data) ==
    MainUpdate("update_bot_data", <<data>>, "bot_data", data)

\* flush(): pass
main_flush ==
    /\ Serving
    /\ mcall' = <<"flush", <<>>, FALSE, None>>
    /\ UNCHANGED <<codec_vars, backend_vars, store_vars, web_vars,
                   throttle_vars, env, lpc, invoked>>

\* WEBHOOK_SECRET = os.getenv("WEBHOOK_SECRET", <default>)
WEBHOOK_SECRET == "jslkdji&8987812kjkj9989l_lki"

\* request.headers.get("X-Telegram-Bot-Api-Secret-Token"): None when the
\* header is missing
Headers == {None, Some(WEBHOOK_SECRET), Some("wrong"), Some("")}

\* a mutant: the secret is compared only when the header is present
telegram_webhook_missing_header_passes(header_secret, body_ok, handled) ==
    /\ Serving
    /\ response[1] < MaxRequests
    /\ IF header_secret # None /\ header_secret # Some(WEBHOOK_SECRET)
       THEN /\ response' = <<response[1] + 1, header_secret, 403>>
            /\ processed' = processed
       ELSE IF ~body_ok
       THEN /\ response' = <<response[1] + 1, header_secret, 500>>
            /\ processed' = processed
       ELSE /\ response' = <<response[1] + 1, header_secret,
                             IF handled THEN 200 ELSE 500>>
            /\ processed' = processed + 1
    /\ UNCHANGED <<codec_vars, backend_vars, store_vars, main_vars,
                   throttle_vars>>

\* POST /webhook, served once lifespan() has yielded. A header that differs
\* from WEBHOOK_SECRET raises HTTPException(403). Otherwise the body is read
\* and turned into an Update (which raises on a bad body: body_ok) and
\* process_update is awaited; it returns or raises (handled), and an
\* exception of the endpoint is answered with status 500.
telegram_webhook(header_secret, body_ok, handled) ==
    /\ Serving
    /\ response[1] < MaxRequests
    /\ IF header_secret # Some(WEBHOOK_SECRET)
       THEN /\ response' = <<response[1] + 1, header_secret, 403>>
            /\ processed' = processed
       ELSE IF ~body_ok
       THEN /\ response' = <<response[1] + 1, header_secret, 500>>
            /\ processed' = processed
       ELSE /\ response' = <<response[1] + 1, header_secret,
                             IF handled THEN 200 ELSE 500>>
            /\ processed' = processed + 1
    /\ UNCHANGED <<codec_vars, backend_vars, store_vars, main_vars,
                   throttle_vars>>

\* lifespan() moves to position next
LifespanGoto(next) ==
    /\ lpc' = next
    /\ UNCHANGED <<codec_vars, backend_vars, store_vars, web_vars,
                   throttle_vars, env, invoked, mcall>>

\* if not TELEGRAM_BOT_TOKEN: raise RuntimeError
LifespanCheckToken ==
    /\ lpc = "start"
    /\ LifespanGoto(IF env.token THEN "construct" ELSE "aborted")

\* persistence = SupabasePersistence(SUPABASE_URL, SUPABASE_KEY): the class
\* of main.py, whose constructor makes no request
LifespanConstruct ==
    /\ lpc = "construct"
    /\ lpc' = "build"
    /\ invoked' = Append(invoked, "__init__")
    /\ UNCHANGED <<codec_vars, backend_vars, store_vars, web_vars,
                   throttle_vars, env, mcall>>

\* the Application is built with the persistence, the handlers are added
LifespanBuild ==
    /\ lpc = "build"
    /\ LifespanGoto("initialize")

\* await tg_app.initialize(); await tg_app.start(): calls into the bot
\* framework, which return or raise
LifespanInitialize ==
    /\ lpc = "initialize"
    /\ \E ok \in BOOLEAN : LifespanGoto(IF ok THEN "set_my_commands" ELSE "aborted")

\* await tg_app.bot.set_my_commands(...): a request to Telegram
LifespanSetCommands ==
    /\ lpc = "set_my_commands"
    /\ \E ok \in BOOLEAN : LifespanGoto(IF ok THEN "check_url" ELSE "aborted")

\* if not PUBLIC_URL: raise RuntimeError
LifespanCheckPublicUrl ==
    /\ lpc = "check_url"
    /\ LifespanGoto(IF env.public_url THEN "set_webhook" ELSE "aborted")

\* await tg_app.bot.set_webhook(...), then yield: the application serves
LifespanSetWebhook ==
    /\ lpc = "set_webhook"
    /\ \E ok \in BOOLEAN : LifespanGoto(IF ok THEN "serving" ELSE "aborted")

\* after the yield: tg_app.stop(), tg_app.shutdown()
LifespanShutdown ==
    /\ lpc = "serving"
    /\ LifespanGoto("stopped")

InitMain ==
    /\ CodecIdle
    /\ \E up \in BOOLEAN : Constructed(EmptyTable, up, TRUE, AllKinds)
    /\ env \in [token : BOOLEAN, public_url : BOOLEAN]
    /\ lpc = "start"
    /\ invoked = <<>>
    /\ mcall = <<"none", <<>>, FALSE, None>>
    /\ response = NoResponse
    /\ processed = 0
    /\ ThrottleIdle

NextMain ==
    \/ LifespanCheckToken
    \/ LifespanConstruct
    \/ LifespanBuild
    \/ LifespanInitialize
    \/ LifespanSetCommands
    \/ LifespanCheckPublicUrl
    \/ LifespanSetWebhook
    \/ LifespanShutdown
    \/ main_get_user_data
    \/ \E u \in Users, d \in DataVals : main_update_user_data(u, d)
    \/ main_get_chat_data
    \/ \E c \in Chats, d \in DataVals : main_update_chat_data(c, d)
    \/ main_get_bot_data
    \/ \E d \in DataVals : main_update_bot_data(d)
    \/ main_flush
    \/ \E h \in Headers, body_ok \in BOOLEAN, handled \in BOOLEAN :
           telegram_webhook(h, body_ok, handled)
    \/ BackendFails
    \/ BackendRecovers

SpecMain == InitMain /\ [][NextMain]_vars

-----------------------------------------------------------------------------
(* SpecCodec: the codec applied to every key of a bounded set.             *)

CodecChatIds == (0 - MaxChatId)..MaxChatId
CodecThreadIds == {None} \cup {Some(t) : t \in (0 - 1)..MaxThreadId}
CodecKeys == {<<Some(a), b>> : a \in CodecChatIds, b \in CodecThreadIds}

InitCodec ==
    /\ cpc = "start"
    /\ ckey \in CodecKeys
    /\ cstr = <<>>
    /\ cout = None
    /\ StoreIdle
    /\ MainIdle
    /\ ThrottleIdle

CodecEncode ==
    /\ cpc = "start"
    /\ cstr' = _conv_key_encode(ckey)
    /\ cpc' = "encoded"
    /\ UNCHANGED <<ckey, cout>>
    /\ UNCHANGED <<backend_vars, store_vars, main_vars, web_vars,
                   throttle_vars>>

CodecDecode ==
    /\ cpc = "encoded"
    /\ cout' = _conv_key_decode(cstr)
    /\ cpc' = "decoded"
    /\ UNCHANGED <<ckey, cstr>>
    /\ UNCHANGED <<backend_vars, store_vars, main_vars, web_vars,
                   throttle_vars>>

NextCodec == CodecEncode \/ CodecDecode

SpecCodec == InitCodec /\ [][NextCodec]_vars

-----------------------------------------------------------------------------
(* Claims.                                                                 *)

\* C1: for every key (a, b) with a an integer and b an integer or None,
\* _conv_key_decode(_conv_key_encode((a, b))) = (a, b); (a, None) and (a, 0)
\* decode back to distinct values.
C1_RoundTrip ==
    cpc = "decoded" =>
        /\ cout = ckey
        /\ (ckey[2] = None => cout[2] = None)
        /\ (ckey[2] = Some(0) => cout[2] = Some(0))

\* a key with thread id 0 has gone through encode and decode
C1_Witness ==
    /\ cpc = "decoded"
    /\ ckey = <<Some(0 - 12), Some(0)>>
    /\ cstr = <<"-", "1", "2", ":", "0">>


\* this step is a completed call of op
Did(op) == nops' = nops + 1 /\ call'[1] = op
\* the arguments of the call this step completes
Arg(i) == call'[2][i]

\* this step is a write to the record of user u (or builds a new store)
WritesUser(u) ==
    \/ Did("__init__")
    \/ /\ \/ Did("update_user_data") \/ Did("refresh_user_data")
          \/ Did("drop_user_data")
       /\ Arg(1) = u
WritesChat(c) ==
    \/ Did("__init__")
    \/ /\ \/ Did("update_chat_data") \/ Did("refresh_chat_data")
          \/ Did("drop_chat_data")
       /\ Arg(1) = c
WritesConv(n, k) ==
    \/ Did("__init__")
    \/ Did("update_conversation") /\ Arg(1) = n /\ Arg(2) = k

\* C2: for every record kind enabled in store_data and every key, get_*()
\* yields for that key exactly the mapping passed to the most recent update_*
\* call for it (the new mapping replaces the old one, it is not merged), as
\* long as no other write to that key intervenes: an update_* step leaves
\* exactly its argument under the key, and a step that is no write to a key
\* leaves the key's value as it was.
C2_LastWriterWins ==
    [][ /\ (Did("update_user_data") /\ store_data.user_data)
            => (Arg(1) \in DOMAIN _user_data' /\ _user_data'[Arg(1)] = Arg(2))
        /\ (Did("update_chat_data") /\ store_data.chat_data)
            => (Arg(1) \in DOMAIN _chat_data' /\ _chat_data'[Arg(1)] = Arg(2))
        /\ (Did("update_bot_data") /\ store_data.bot_data)
            => _bot_data' = Arg(1)
        /\ (Did("update_callback_data") /\ store_data.callback_data)
            => _callback_data' = Arg(1)
        /\ (Did("update_conversation") /\ store_data.conversations /\ Arg(3) # None)
            => /\ Arg(1) \in DOMAIN _conversations'
               /\ Arg(2) \in DOMAIN _conversations'[Arg(1)]
               /\ _conversations'[Arg(1)][Arg(2)] = Arg(3)
        /\ \A u \in DOMAIN _user_data :
               ~WritesUser(u)
                   => (u \in DOMAIN _user_data' /\ _user_data'[u] = _user_data[u])
        /\ \A c \in DOMAIN _chat_data :
               ~WritesChat(c)
                   => (c \in DOMAIN _chat_data' /\ _chat_data'[c] = _chat_data[c])
        /\ ~(Did("update_bot_data") \/ Did("refresh_bot_data") \/ Did("__init__"))
               => _bot_data' = _bot_data
        /\ ~(Did("update_callback_data") \/ Did("__init__"))
               => _callback_data' = _callback_data
        /\ \A n \in DOMAIN _conversations : \A k \in DOMAIN _conversations[n] :
               ~WritesConv(n, k)
                   => /\ n \in DOMAIN _conversations'
                      /\ k \in DOMAIN _conversations'[n]
                      /\ _conversations'[n][k] = _conversations[n][k]
      ]_vars

\* user 1 has been given D2 and then D1, user 2 keeps the record written first
C2_Witness ==
    /\ call = <<"update_user_data", <<1, D1>>, FALSE>>
    /\ nops = 3
    /\ 1 \in DOMAIN get_user_data /\ get_user_data[1] = D1
    /\ 2 \in DOMAIN get_user_data /\ get_user_data[2] = D2

\* the five rows hold the encoded caches
Persisted ==
    \A id \in StateRowIds :
        table[id] = Row(FlushRows(_user_data, _chat_data, _bot_data,
                                  _conversations, _callback_data)[id])

\* the caches as the in-memory part of the call this step completes leaves
\* them
MemoryAfterCall ==
    CASE \/ Did("update_user_data") /\ ~store_data.user_data
         \/ Did("update_chat_data") /\ ~store_data.chat_data
         \/ Did("update_bot_data") /\ ~store_data.bot_data
         \/ Did("update_callback_data") /\ ~store_data.callback_data
         \/ Did("update_conversation") /\ ~store_data.conversations ->
            caches
      [] Did("update_user_data") \/ Did("refresh_user_data") ->
            <<DictSet(_user_data, Arg(1), Arg(2)), _chat_data, _bot_data,
              _conversations, _callback_data>>
      [] Did("update_chat_data") \/ Did("refresh_chat_data") ->
            <<_user_data, DictSet(_chat_data, Arg(1), Arg(2)), _bot_data,
              _conversations, _callback_data>>
      [] Did("update_bot_data") \/ Did("refresh_bot_data") ->
            <<_user_data, _chat_data, Arg(1), _conversations, _callback_data>>
      [] Did("update_callback_data") ->
            <<_user_data, _chat_data, _bot_data, _conversations, Arg(1)>>
      [] Did("update_conversation") ->
            <<_user_data, _chat_data, _bot_data,
              DictSet(_conversations, Arg(1),
                      IF Arg(3) = None
                      THEN DictPop(DictGet(_conversations, Arg(1)), Arg(2))
                      ELSE DictSet(DictGet(_conversations, Arg(1)), Arg(2), Arg(3))),
              _callback_data>>
      [] Did("drop_user_data") ->
            <<DictPop(_user_data, Arg(1)), _chat_data, _bot_data,
              _conversations, _callback_data>>
      [] Did("drop_chat_data") ->
            <<_user_data, DictPop(_chat_data, Arg(1)), _bot_data,
              _conversations, _callback_data>>
      [] OTHER -> caches

\* C3: a backend failure during flush(), and so during any update_*,
\* refresh_*, drop_* that triggers it, is swallowed: the call returns without
\* raising, and the five caches hold what they held just before the failed
\* write (for flush() itself, what they held before the call).
C3_FlushFailureSwallowed ==
    [][ (nops' = nops + 1 /\ ~Did("__init__") /\ ~Did("health_check")
            /\ ~backend_up /\ (Did("flush") \/ flush_on_update))
        => /\ call'[3] = FALSE
           /\ table' = table
           /\ caches' = MemoryAfterCall
           /\ (Did("flush") => caches' = caches)
      ]_vars

\* an update_user_data whose flush failed has returned, the record in place
C3_Witness ==
    /\ call = <<"update_user_data", <<1, D1>>, FALSE>>
    /\ outage = "failed"
    /\ ~backend_up
    /\ flush_on_update
    /\ 1 \in DOMAIN _user_data /\ _user_data[1] = D1
    /\ table[RowId("user_data")] = NoRow

\* C4: a failure of the select _load_all() issues during construction is not
\* swallowed: construction fails and the store never becomes usable with
\* empty caches.
C4_LoadFailureAborts ==
    (call[1] = "__init__" /\ call[2] = <<FALSE>>)
        => (call[3] = TRUE /\ phase # "ready")

\* C5: the first flush() that runs after the backend has recovered leaves
\* each of the five rows equal to the encoded cache of its kind, whatever was
\* mutated while the backend was failing.
C5_FlushAfterRecovery ==
    [][ (Did("flush") /\ backend_up) => (Persisted' /\ caches' = caches) ]_vars

\* a record written while the backend was failing is in the table after the
\* flush() that followed the recovery
C5_Witness ==
    /\ call = <<"flush", <<>>, FALSE>>
    /\ outage = "recovered"
    /\ 1 \in DOMAIN _user_data /\ _user_data[1] = D1
    /\ table[RowId("user_data")] = Row(JDict(<<"1">> :> D1))
    /\ Persisted

\* no conversation entry maps a key to a null state, in memory or in the
\* persisted conversations row
NoNullState ==
    /\ \A n \in DOMAIN _conversations : \A k \in DOMAIN _conversations[n] :
           _conversations[n][k] # None
    /\ table[RowId("conversations")] # NoRow
           => LET row == RowData(table, RowId("conversations"))[2]
              IN  \A n \in DOMAIN row : \A k \in DOMAIN row[n] : row[n][k] # None

\* C7: update_conversation(name, key, None) removes the entry, so that
\* get_conversations(name) does not contain key afterwards; and in every
\* reachable state no conversation entry maps a key to a null state, in memory
\* or in the persisted conversations row.
C7_NoneRemovesEntry ==
    /\ []NoNullState
    /\ [][ (Did("update_conversation") /\ store_data.conversations
                /\ Arg(3) = None)
           => Arg(2) \notin DOMAIN DictGet(_conversations', Arg(1)) ]_vars

\* an entry was removed from a flow that keeps another entry
C7_Witness ==
    /\ call = <<"update_conversation", <<"survey", <<Some(100), Some(7)>>, None>>,
                FALSE>>
    /\ nops = 3
    /\ DOMAIN get_conversations("survey") = {<<Some(100), None>>}
    /\ Persisted

\* C8: for every user or chat key, with or without a record, drop_user_data /
\* drop_chat_data completes without error, a read of the key afterwards yields
\* the empty mapping, and dropping is idempotent: a drop of a key that has no
\* record changes no cache, and no row of a table that holds the caches.
C8_DropIdempotent ==
    [][ /\ Did("drop_user_data")
            => /\ call'[3] = FALSE
               /\ Arg(1) \notin DOMAIN _user_data'
               /\ DictGet(_user_data', Arg(1)) = EmptyDict
               /\ Arg(1) \notin DOMAIN _user_data => caches' = caches
               /\ (Arg(1) \notin DOMAIN _user_data /\ Persisted) => table' = table
        /\ Did("drop_chat_data")
            => /\ call'[3] = FALSE
               /\ Arg(1) \notin DOMAIN _chat_data'
               /\ DictGet(_chat_data', Arg(1)) = EmptyDict
               /\ Arg(1) \notin DOMAIN _chat_data => caches' = caches
               /\ (Arg(1) \notin DOMAIN _chat_data /\ Persisted) => table' = table
      ]_vars

\* user 1 was dropped (its record gone from the cache and from the row) while
\* user 2 keeps its record
C8_Witness ==
    /\ call = <<"drop_user_data", <<1>>, FALSE>>
    /\ nops = 3
    /\ DOMAIN _user_data = {2}
    /\ table[RowId("user_data")] = Row(JDict(<<"2">> :> D1))

\* C9: two conversation entries of one flow whose keys differ only in the
\* thread component never collide: once the conversations are flushed, a
\* store constructed against the same table holds every key of every flow,
\* each with the state written for it.
C9_ThreadKeysDoNotCollide ==
    [][ (Did("__init__") /\ backend_up
            /\ table[RowId("conversations")]
                   = Row(JDict(_conversations_encode(_conversations))))
        => /\ call'[3] = FALSE
           /\ \A n \in DOMAIN _conversations : \A k \in DOMAIN _conversations[n] :
                  /\ n \in DOMAIN _conversations'
                  /\ k \in DOMAIN _conversations'[n]
                  /\ _conversations'[n][k] = _conversations[n][k]
      ]_vars

\* (100, None) and (100, 0) were written with different states, flushed, and
\* are both there after the reload
C9_Witness ==
    /\ call = <<"__init__", <<TRUE>>, FALSE>>
    /\ nops = 3
    /\ "survey" \in DOMAIN _conversations
    /\ DOMAIN _conversations["survey"] = {<<Some(100), None>>, <<Some(100), Some(0)>>}
    /\ _conversations["survey"][<<Some(100), None>>] = Some(ASK_NAME)
    /\ _conversations["survey"][<<Some(100), Some(0)>>] = Some(1)

\* C6: in the persistence class of main.py, after update_user_data(u, m)
\* has completed, get_user_data() returns data in which u's record is m, and
\* likewise for update_chat_data / get_chat_data.  (The row user_<u> holds m
\* exactly when the last completed update_user_data(u, .) was given m.)
C6_MainRoundTrip ==
    /\ (mcall[1] = "get_user_data" /\ ~mcall[3])
        => \A u \in Users :
               table[MainUserRowId(u)] # NoRow
                   => /\ u \in DOMAIN mcall[4]
                      /\ mcall[4][u] = table[MainUserRowId(u)][1][2]
    /\ (mcall[1] = "get_chat_data" /\ ~mcall[3])
        => \A c \in Chats :
               table[MainChatRowId(c)] # NoRow
                   => /\ c \in DOMAIN mcall[4]
                      /\ mcall[4][c] = table[MainChatRowId(c)][1][2]

\* C10: health_check() is invoked once during startup, before the bot serves
\* traffic, so that a failing health check keeps the application from
\* serving.
C10_HealthCheckAtStartup ==
    lpc = "serving"
        => Cardinality({i \in DOMAIN invoked : invoked[i] = "health_check"}) = 1

\* C11: health_check() returns without error when the backend is reachable
\* and the select, the upsert and the read-back of the probe row are accepted
\* and the read-back returns the row; it raises when the select, the upsert
\* or the read-back fails or the read-back returns no data.
C11_HealthCheckOutcome ==
    [][Did("health_check") =>
          /\ (backend_up /\ Arg(1) = "none") => call'[3] = FALSE
          /\ (~backend_up \/ Arg(1) \in {"select", "upsert", "readback", "nodata"})
                 => call'[3] = TRUE
      ]_vars

\* a health check whose read-back returned no data has raised
C11_Witness == call = <<"health_check", <<"nodata", TRUE>>, TRUE>>

\* the stored data of a row as the load sees it, {} for a missing or falsy one
Stored(kind) == OrEmpty(RowData(table, RowId(kind)))

\* the stored user_data or chat_data value is no mapping from integer strings
MalformedIntMap(j) == ~IsDict(j) \/ IntKeysRaises(j[2])

\* the stored conversations value has a key that cannot be decoded
UndecodableKey(j) == IsDict(j) /\ _conversations_decode_raises(j[2])

\* the entries of the stored conversations whose key can be decoded
DecodableEntries(data) ==
    [name \in DOMAIN data |->
        [s \in {t \in DOMAIN data[name] : _conv_key_decode(t) # ValueError} |->
            data[name][s]]]

\* a construction that reached the backend has just been made
Loaded == call[1] = "__init__" /\ call[2] = <<TRUE>>

\* C12: when the stored value of a row is malformed (no mapping, or a
\* user_data or chat_data mapping with a key that is no integer string), the
\* load does not raise, leaves that record empty and loads the other rows.
C12_MalformedRowIsEmpty ==
    (Loaded /\ ~UndecodableKey(Stored("conversations"))) =>
        /\ call[3] = FALSE
        /\ get_user_data = IF MalformedIntMap(Stored("user_data")) THEN EmptyDict
                           ELSE IntKeys(Stored("user_data")[2])
        /\ get_chat_data = IF MalformedIntMap(Stored("chat_data")) THEN EmptyDict
                           ELSE IntKeys(Stored("chat_data")[2])
        /\ get_bot_data = IF IsDict(Stored("bot_data"))
                          THEN Stored("bot_data")[2] ELSE EmptyDict
        /\ _conversations = IF IsDict(Stored("conversations"))
                            THEN _conversations_decode(Stored("conversations")[2])
                            ELSE EmptyDict
        /\ get_callback_data = IF IsDict(Stored("callback_data"))
                               THEN Stored("callback_data")[2] ELSE EmptyDict

\* C13: when the stored conversations hold a key that cannot be decoded, the
\* load does not raise, skips only that entry and loads every other entry
\* and every other row.
C13_UndecodableKeySkipped ==
    (/\ Loaded
     /\ UndecodableKey(Stored("conversations"))
     /\ ~(IsDict(Stored("user_data")) /\ IntKeysRaises(Stored("user_data")[2]))
     /\ ~(IsDict(Stored("chat_data")) /\ IntKeysRaises(Stored("chat_data")[2]))) =>
        /\ call[3] = FALSE
        /\ _conversations =
               _conversations_decode(DecodableEntries(Stored("conversations")[2]))
        /\ get_user_data = IF IsDict(Stored("user_data"))
                           THEN IntKeys(Stored("user_data")[2]) ELSE EmptyDict
        /\ get_chat_data = IF IsDict(Stored("chat_data"))
                           THEN IntKeys(Stored("chat_data")[2]) ELSE EmptyDict
        /\ get_bot_data = IF IsDict(Stored("bot_data"))
                          THEN Stored("bot_data")[2] ELSE EmptyDict

\* C14: in the adapter of main.py a backend error raised during
\* update_user_data, update_chat_data or update_bot_data is swallowed: the
\* call never raises.
C14_MainSaveErrorSwallowed ==
    mcall[1] \in {"update_user_data", "update_chat_data", "update_bot_data"}
        => mcall[3] = FALSE

UpdateOps == {"update_user_data", "update_chat_data", "update_bot_data",
              "update_callback_data", "update_conversation"}

\* the record the update call c writes: its kind and key
TargetOf(c) ==
    CASE c[1] = "update_user_data" -> <<"user_data", c[2][1]>>
      [] c[1] = "update_chat_data" -> <<"chat_data", c[2][1]>>
      [] c[1] = "update_bot_data" -> <<"bot_data">>
      [] c[1] = "update_callback_data" -> <<"callback_data">>
      [] c[1] = "update_conversation" -> <<"conversations", c[2][1], c[2][2]>>

\* after this step the caches hold what the update call c wrote
HeldAfter(c) ==
    CASE c[1] = "update_user_data" ->
            c[2][1] \in DOMAIN _user_data' /\ _user_data'[c[2][1]] = c[2][2]
      [] c[1] = "update_chat_data" ->
            c[2][1] \in DOMAIN _chat_data' /\ _chat_data'[c[2][1]] = c[2][2]
      [] c[1] = "update_bot_data" -> _bot_data' = c[2][1]
      [] c[1] = "update_callback_data" -> _callback_data' = c[2][1]
      [] c[1] = "update_conversation" ->
            LET flow == DictGet(_conversations', c[2][1])
            IN  IF c[2][3] = None THEN c[2][2] \notin DOMAIN flow
                ELSE c[2][2] \in DOMAIN flow /\ flow[c[2][2]] = c[2][3]

\* this step changes no record of the caches other than record t
OthersUnchanged(t) ==
    /\ \A u \in DOMAIN _user_data \cup DOMAIN _user_data' :
           <<"user_data", u>> # t =>
               /\ u \in DOMAIN _user_data /\ u \in DOMAIN _user_data'
               /\ _user_data'[u] = _user_data[u]
    /\ \A c \in DOMAIN _chat_data \cup DOMAIN _chat_data' :
           <<"chat_data", c>> # t =>
               /\ c \in DOMAIN _chat_data /\ c \in DOMAIN _chat_data'
               /\ _chat_data'[c] = _chat_data[c]
    /\ <<"bot_data">> # t => _bot_data' = _bot_data
    /\ <<"callback_data">> # t => _callback_data' = _callback_data
    /\ \A n \in DOMAIN _conversations \cup DOMAIN _conversations' :
           LET old == DictGet(_conversations, n)
               new == DictGet(_conversations', n)
           IN  \A k \in DOMAIN old \cup DOMAIN new :
                   <<"conversations", n, k>> # t =>
                       k \in DOMAIN old /\ k \in DOMAIN new /\ new[k] = old[k]

\* C15: two tasks each call an update for a different key (different users,
\* chats or record kinds). The methods are synchronous, so the calls
\* interleave as whole calls, in either order. Once the second call has
\* completed, the caches hold both tasks' values, the second call has changed
\* no record but its own, and under write-through with the backend reachable
\* the five rows hold the caches, hence both values.
C15_DisjointUpdatesBothLand ==
    [][(/\ store_data = AllKinds
        /\ nops' = nops + 1
        /\ call'[1] \in UpdateOps) =>
          /\ HeldAfter(call')
          /\ OthersUnchanged(TargetOf(call'))
          /\ (call[1] \in UpdateOps /\ TargetOf(call) # TargetOf(call'))
                 => HeldAfter(call)
          /\ (flush_on_update /\ backend_up) => Persisted'
      ]_vars

\* one task has written user 1 and then the other user 2; both records are
\* in the cache and in the backend row
C15_Witness ==
    /\ call = <<"update_user_data", <<2, D2>>, FALSE>>
    /\ nops = 2
    /\ flush_on_update /\ store_data = AllKinds
    /\ get_user_data = (1 :> D1) @@ (2 :> D2)
    /\ table[RowId("user_data")] = Row(JDict((<<"1">> :> D1) @@ (<<"2">> :> D2)))

MutatingOps == UpdateOps \cup {"refresh_user_data", "refresh_chat_data",
                               "refresh_bot_data", "drop_user_data",
                               "drop_chat_data"}

\* this step completes a call of a mutating operation
DidMutate == nops' = nops + 1 /\ call'[1] \in MutatingOps

\* this step is an update_* of a record kind that store_data disables: the
\* method returns at once
DisabledUpdate ==
    \/ Did("update_user_data") /\ ~store_data.user_data
    \/ Did("update_chat_data") /\ ~store_data.chat_data
    \/ Did("update_bot_data") /\ ~store_data.bot_data
    \/ Did("update_callback_data") /\ ~store_data.callback_data
    \/ Did("update_conversation") /\ ~store_data.conversations

\* C16 as stated: flush_on_update alone decides the write policy. When it is
\* True and the backend is reachable, the five rows equal the encoded caches
\* after every completed mutating operation; when it is False no mutating
\* operation writes to the backend and an explicit flush() does.
C16_FlushOnUpdateAloneDecides ==
    [][/\ DidMutate =>
             IF flush_on_update THEN backend_up => Persisted'
             ELSE table' = table
       /\ (Did("flush") /\ backend_up) => Persisted'
      ]_vars

\* C16, amended: when flush_on_update is True and the backend is reachable,
\* the five rows equal the encoded caches after every completed mutating
\* operation that reaches its flush, that is every refresh_*, drop_* and every
\* update_* whose record kind store_data enables; an update_* of a disabled
\* kind writes nothing. When flush_on_update is False no mutating operation
\* writes to the backend and an explicit flush() does.
C16_WritePolicy ==
    [][/\ DidMutate =>
             IF DisabledUpdate \/ ~flush_on_update THEN table' = table
             ELSE backend_up => Persisted'
       /\ (Did("flush") /\ backend_up) => Persisted'
      ]_vars

\* with write-through, a refresh made after an outage has brought all five
\* rows up to date
C16_Witness ==
    /\ call = <<"refresh_user_data", <<1, D1>>, FALSE>>
    /\ flush_on_update
    /\ outage = "recovered"
    /\ get_chat_data = (100 :> D2)
    /\ Persisted

\* C17: a restart round trip. From every reachable state in which the five
\* rows hold the encoded caches (a flush has succeeded), constructing a new
\* store with the same table and prefix against the reachable backend does not
\* raise and yields caches equal to the flushed ones: int keys, (chat_id,
\* thread_id) keys and the nesting of each record are restored.
C17_RestartRoundTrip ==
    [][(Did("__init__") /\ backend_up /\ Persisted) =>
          /\ call'[3] = FALSE
          /\ phase' = "ready"
          /\ caches' = caches
      ]_vars

\* a store constructed after a flush holds a user's record and a thread's
\* conversation state again
C17_Witness ==
    /\ call = <<"__init__", <<TRUE>>, FALSE>>
    /\ nops = 3
    /\ Persisted
    /\ get_user_data = (1 :> D2)
    /\ get_conversations("survey") = (<<Some(100), Some(7)>> :> Some(1))

\* the records a row of the table holds, by the string key they are stored
\* under
RecordsOf(tbl, kind) == OrEmpty(RowData(tbl, RowId(kind)))[2]

\* this step's call drops, updates or refreshes the bot or callback record
WritesBot == Did("update_bot_data") \/ Did("refresh_bot_data")
WritesCallback == Did("update_callback_data")

\* C18: the startup select fails while the backend holds persisted records.
\* The next call on the store, made when the backend is reachable again, does
\* not make a persisted record disappear from the backend unless the call
\* drops or overwrites the record of that same key.
C18_FailedLoadLosesNoRecord ==
    [][(/\ call = <<"__init__", <<FALSE>>, FALSE>>
        /\ nops' = nops + 1
        /\ call'[1] \in MutatingOps \cup {"flush"}) =>
          /\ \A s \in DOMAIN RecordsOf(table, "user_data") :
                 ~WritesUser(PyInt(s)) =>
                     /\ s \in DOMAIN RecordsOf(table', "user_data")
                     /\ RecordsOf(table', "user_data")[s] =
                            RecordsOf(table, "user_data")[s]
          /\ \A s \in DOMAIN RecordsOf(table, "chat_data") :
                 ~WritesChat(PyInt(s)) =>
                     /\ s \in DOMAIN RecordsOf(table', "chat_data")
                     /\ RecordsOf(table', "chat_data")[s] =
                            RecordsOf(table, "chat_data")[s]
          /\ ~WritesBot =>
                 RecordsOf(table', "bot_data") = RecordsOf(table, "bot_data")
          /\ ~WritesCallback =>
                 RecordsOf(table', "callback_data") =
                     RecordsOf(table, "callback_data")
          /\ \A n \in DOMAIN RecordsOf(table, "conversations") :
                 \A s \in DOMAIN RecordsOf(table, "conversations")[n] :
                     ~WritesConv(n, _conv_key_decode(s)) =>
                         /\ n \in DOMAIN RecordsOf(table', "conversations")
                         /\ s \in DOMAIN RecordsOf(table', "conversations")[n]
                         /\ RecordsOf(table', "conversations")[n][s] =
                                RecordsOf(table, "conversations")[n][s]
      ]_vars

\* C19: once the constructor has loaded the five rows, no data operation reads
\* the backend again. Every step but a construction leaves the caches, which
\* are what get_*() return, as the call's in-memory part determines them from
\* the caches before and the call's arguments, whatever the rows hold and
\* whether the backend is reachable; a step that is no call leaves them as
\* they are.
C19_CacheIsAuthoritative ==
    [][~Did("__init__") =>
          LET after == MemoryAfterCall
          IN  /\ get_user_data' = after[1]
              /\ get_chat_data' = after[2]
              /\ get_bot_data' = after[3]
              /\ _conversations' = after[4]
              /\ \A n \in ConvNames :
                     get_conversations(n)' = DictGet(after[4], n)
              /\ get_callback_data' = after[5]
      ]_vars

\* the backend row still holds the record written before the outage, and the
\* store returns the record refreshed during it
C19_Witness ==
    /\ call = <<"refresh_user_data", <<1, D1>>, FALSE>>
    /\ get_user_data = (1 :> D1)
    /\ table[RowId("user_data")] = Row(JDict(<<"1">> :> D2))

\* the ids a store constructed with prefix "main" may write or delete
OwnRowIds == {"main:user_data", "main:chat_data", "main:bot_data",
              "main:conversations", "main:callback_data", "main:__healthcheck__"}

\* C20: every write and delete of a store with prefix p targets only the ids
\* p:user_data, p:chat_data, p:bot_data, p:conversations, p:callback_data and
\* p:__healthcheck__: no step changes, adds or removes a row with another id,
\* be it the row of a store with another prefix or an unprefixed one.
C20_WritesOnlyOwnRows ==
    [][/\ DOMAIN table' = DOMAIN table
       /\ \A id \in DOMAIN table \ OwnRowIds : table'[id] = table[id]
      ]_vars

\* the store has flushed a record and a health check has left its probe row
\* behind; the other store's row and the unprefixed row are as they were
C20_Witness ==
    /\ call[1] = "health_check"
    /\ table[probe_id] = Row(ProbeData)
    /\ table[RowId("user_data")] = Row(JDict(<<"1">> :> D1))
    /\ table["other:user_data"] = OtherStoreRow
    /\ table["bot_data"] = UnprefixedRow

\* C21: health_check() changes none of the five caches and none of the five
\* state rows, and when the run reached the delete and the backend accepted
\* it, the probe row does not exist afterwards, whether the check returned or
\* raised after the upsert.
C21_HealthCheckFrame ==
    [][Did("health_check") =>
          /\ caches' = caches
          /\ \A id \in StateRowIds : table'[id] = table[id]
          /\ (Arg(1) # "select" /\ Arg(2)) => table'[probe_id] = NoRow
      ]_vars

\* a check that raised at the read-back has removed its probe row and left
\* the user's record in the cache and in its row
C21_Witness ==
    /\ call = <<"health_check", <<"readback", TRUE>>, TRUE>>
    /\ table[probe_id] = NoRow
    /\ get_user_data = (1 :> D1)
    /\ table[RowId("user_data")] = Row(JDict(<<"1">> :> D1))

\* this step answers a request to /webhook
DidWebhook == response'[1] = response[1] + 1

\* C22: /webhook hands an update to process_update only when the request's
\* X-Telegram-Bot-Api-Secret-Token header equals WEBHOOK_SECRET; a request
\* whose header is missing or different is answered with 403, no update is
\* processed and nothing else changes.
C22_WebhookSecret ==
    [][DidWebhook =>
          /\ processed' # processed =>
                 /\ response'[2] = Some(WEBHOOK_SECRET)
                 /\ processed' = processed + 1
          /\ response'[3] = 200 => processed' = processed + 1
          /\ response'[2] # Some(WEBHOOK_SECRET) =>
                 /\ response'[3] = 403
                 /\ processed' = processed
                 /\ UNCHANGED <<codec_vars, backend_vars, store_vars, main_vars,
                                throttle_vars>>
      ]_vars

\* one update has been processed; then a request without the header has been
\* rejected, with a record saved by the adapter still in the table
C22_Witness ==
    /\ response = <<2, None, 403>>
    /\ processed = 1
    /\ table[MainUserRowId(1)] = Row(JDict(D1))

\* C23: when a record kind is disabled in store_data, the update_* operation
\* of that kind (update_user_data, update_chat_data, update_bot_data,
\* update_callback_data, update_conversation) is a no-op: it returns without
\* raising, leaves every cache as it was and writes nothing to the backend.
C23_DisabledUpdateIsNoOp ==
    [][DisabledUpdate =>
          /\ call'[3] = FALSE
          /\ caches' = caches
          /\ table' = table
      ]_vars

\* with every kind disabled and write-through on, an update_bot_data has
\* returned: the record refreshed before is still the one in the cache and in
\* the row
C23_Witness ==
    /\ store_data = NoKinds /\ flush_on_update /\ backend_up
    /\ call = <<"update_bot_data", <<D1>>, FALSE>>
    /\ get_bot_data = D2
    /\ table[RowId("bot_data")] = Row(JDict(D2))

\* this step completes a call of global_throttle
DidThrottle == tcall'[1] = tcall[1] + 1

\* the time, in ticks, below which a message counts as too early
Window == THROTTLE_SECONDS * TicksPerSecond

\* C24: global_throttle lets commands and callback queries pass, without
\* raising and without changing last_msg_ts. It raises ApplicationHandlerStop
\* only for an ordinary message that arrives less than THROTTLE_SECONDS after
\* that user's last accepted message, and then leaves last_msg_ts unchanged;
\* every other ordinary message passes and sets the user's last_msg_ts to the
\* current time.
C24_Throttle ==
    [][DidThrottle =>
          LET kind == tcall'[2]
              u == tcall'[3]
              stopped == tcall'[4]
          IN  /\ kind # "message" => ~stopped /\ last_msg_ts' = last_msg_ts
              /\ stopped =>
                     /\ kind = "message"
                     /\ last_msg_ts[u] # None
                     /\ clock - last_msg_ts[u][1] < Window
                     /\ last_accepted[u] # None
                     /\ clock - last_accepted[u][1] < Window
                     /\ last_msg_ts' = last_msg_ts
              /\ (kind = "message" /\ last_msg_ts[u] # None
                      /\ clock - last_msg_ts[u][1] < Window) => stopped
              /\ (kind = "message" /\ ~stopped) =>
                     last_msg_ts' = [last_msg_ts EXCEPT ![u] = Some(clock)]
      ]_vars

\* user 1's message at tick 1 passed, a command at tick 2 passed, and the
\* message that followed at tick 2, half a second after the first one, was
\* stopped
C24_Witness ==
    /\ tcall = <<3, "message", 1, TRUE>>
    /\ clock = 2
    /\ last_msg_ts[1] = Some(1)
    /\ last_accepted[1] = Some(2)

=============================================================================
